---- MODULE Spec2Model ----
(***************************************************************************)
(* Model of the contract compliance analyzer of src/groq_only_rag.py:      *)
(* main() run repeatedly over a persistent FAISS index directory and a     *)
(* persistent SQLite database.  An absent value (Python None, a missing    *)
(* file) is the empty sequence << >>, a present value v is << v >>.        *)
(***************************************************************************)
EXTENDS Integers, Sequences, FiniteSets, TLC

\* ---------------------------------------------------------------- bounds
\* number of times main() is run over the same index directory and database
MaxRuns == 2
\* number of questions of the batch asked by main's query loop
NumQuestions == 2

\* number of separator-delimited pieces of a text handed to the splitter
MaxPieces == 3
\* number of rows table compliance_findings can take
MaxFindings == 2

\* ------------------------------------------------------- configuration
CHUNK_SIZE == 800
CHUNK_OVERLAP == 120
TOP_K == 4

\* ----------------------------------------------------------- documents
\* The files that can be present under DOCS_PATH (text lengths in characters;
\* a text file is one document, a PDF one document per page).
FileA == [parent |-> "contracts", name |-> "a.txt", suffix |-> ".txt"]
FileB == [parent |-> "contracts", name |-> "b.pdf", suffix |-> ".pdf"]
FileC == [parent |-> "contracts", name |-> "notes.docx", suffix |-> ".docx"]
AllFiles == {FileA, FileB, FileC}
\* the order in which rglob enumerates the directory
FileOrder == <<FileA, FileB, FileC>>

\* page text lengths of a file as its loader extracts them
PageLengths(p) ==
  IF p = FileA THEN <<1500>>
  ELSE IF p = FileB THEN <<900, 400, 0>>
  ELSE <<300>>

\* find_files: the files under the path with a known suffix
find_files(listing) ==
  SelectSeq(FileOrder, LAMBDA p : p \in listing /\ p.suffix \in {".txt", ".md", ".pdf"})

\* TextLoader / PyPDFLoader: the documents of one file
LoadFile(p) ==
  IF p.suffix \in {".txt", ".md"}
  THEN <<[source |-> [parent |-> p.parent, name |-> p.name], page |-> << >>,
          len |-> PageLengths(p)[1]]>>
  ELSE IF p.suffix = ".pdf"
  THEN [i \in 1..Len(PageLengths(p)) |->
          [source |-> [parent |-> p.parent, name |-> p.name], page |-> <<i - 1>>,
           len |-> PageLengths(p)[i]]]
  ELSE << >>

\* load_documents: a file whose loader raises is reported and skipped
RECURSIVE load_documents(_, _)
load_documents(paths, unreadable) ==
  IF paths = << >> THEN << >>
  ELSE (IF Head(paths) \in unreadable THEN << >> ELSE LoadFile(Head(paths)))
       \o load_documents(Tail(paths), unreadable)

\* the splitter on one document: windows of CHUNK_SIZE characters, each
\* starting CHUNK_SIZE - CHUNK_OVERLAP after the previous one
RECURSIVE SplitFrom(_, _)
SplitFrom(doc, start) ==
  IF doc.len = 0 THEN << >>
  ELSE IF doc.len - start <= CHUNK_SIZE
  THEN <<[source |-> doc.source, page |-> doc.page, start |-> start,
          len |-> doc.len - start]>>
  ELSE <<[source |-> doc.source, page |-> doc.page, start |-> start,
          len |-> CHUNK_SIZE]>>
       \o SplitFrom(doc, start + CHUNK_SIZE - CHUNK_OVERLAP)

\* split_documents: the chunks of every document, in document order
RECURSIVE split_documents(_)
split_documents(docs) ==
  IF docs = << >> THEN << >>
  ELSE SplitFrom(Head(docs), 0) \o split_documents(Tail(docs))

\* ------------------------------------------- the splitter on any text
\* A text is a list of piece lengths: each piece is a run of characters
\* without the separator, and every piece but the first begins with the one
\* separator character that precedes it.  A span is a piece (or the chunk
\* made of consecutive pieces): start offset, length, and whether it begins
\* with a separator character.
TextLen(pieces) ==
  LET RECURSIVE Sum(_)
      Sum(i) == IF i = 0 THEN 0 ELSE Sum(i - 1) + pieces[i]
  IN  Sum(Len(pieces))

PieceSpans(pieces) ==
  [i \in 1..Len(pieces) |->
     [start |-> TextLen(SubSeq(pieces, 1, i - 1)),
      len |-> pieces[i],
      lead |-> IF i = 1 THEN 0 ELSE 1]]

\* _join_docs: the pieces joined and stripped; nothing when no text is left
JoinDocs(doc, current_doc, total) ==
  IF current_doc = << >> \/ total - current_doc[1].lead = 0 THEN << >>
  ELSE <<[source |-> doc.source, page |-> doc.page,
          start |-> current_doc[1].start + current_doc[1].lead,
          len |-> total - current_doc[1].lead]>>

\* variant of PopFront: nothing is dropped from current_doc
PopFrontNone(current_doc, total, next_len) ==
  [current_doc |-> current_doc, total |-> total]

\* _merge_splits, the loop dropping pieces from the front of current_doc
\* until at most CHUNK_OVERLAP characters stay and the next piece fits
RECURSIVE PopFront(_, _, _)
PopFront(current_doc, total, next_len) ==
  IF total > CHUNK_OVERLAP \/ (total + next_len > CHUNK_SIZE /\ total > 0)
  THEN PopFront(Tail(current_doc), total - current_doc[1].len, next_len)
  ELSE [current_doc |-> current_doc, total |-> total]

\* _merge_splits from piece i on, with current_doc and its total length
RECURSIVE MergeFrom(_, _, _, _, _)
MergeFrom(doc, splits, i, current_doc, total) ==
  IF i > Len(splits) THEN JoinDocs(doc, current_doc, total)
  ELSE IF total + splits[i].len > CHUNK_SIZE /\ current_doc # << >>
  THEN LET kept == PopFront(current_doc, total, splits[i].len)
       IN  JoinDocs(doc, current_doc, total)
             \o MergeFrom(doc, splits, i + 1, Append(kept.current_doc, splits[i]),
                          kept.total + splits[i].len)
  ELSE MergeFrom(doc, splits, i + 1, Append(current_doc, splits[i]),
                 total + splits[i].len)

\* _merge_splits
merge_splits(doc, splits) == MergeFrom(doc, splits, 1, << >>, 0)

\* a piece of CHUNK_SIZE characters or more is split again, character by
\* character: windows of CHUNK_SIZE, the first one stripped
SplitLongPiece(doc, piece) ==
  LET windows == SplitFrom([source |-> doc.source, page |-> doc.page,
                            len |-> piece.start + piece.len], piece.start)
  IN  [k \in 1..Len(windows) |->
         IF k = 1
         THEN [windows[1] EXCEPT !.start = @ + piece.lead, !.len = @ - piece.lead]
         ELSE windows[k]]

\* _split_text from piece i on, good_splits being the short pieces not yet merged
RECURSIVE SplitTextFrom(_, _, _, _)
SplitTextFrom(doc, splits, i, good_splits) ==
  IF i > Len(splits) THEN merge_splits(doc, good_splits)
  ELSE IF splits[i].len < CHUNK_SIZE
  THEN SplitTextFrom(doc, splits, i + 1, Append(good_splits, splits[i]))
  ELSE merge_splits(doc, good_splits)
         \o SplitLongPiece(doc, splits[i])
         \o SplitTextFrom(doc, splits, i + 1, << >>)

\* split_text on one document, its metadata copied to every chunk
split_text(doc) == SplitTextFrom(doc, PieceSpans(doc.pieces), 1, << >>)

\* split_documents on documents given with their pieces
RECURSIVE create_documents(_)
create_documents(docs) ==
  IF docs = << >> THEN << >>
  ELSE split_text(Head(docs)) \o create_documents(Tail(docs))

\* ---------------------------------------------------------- vector store
\* HuggingFaceEmbeddings: the embedding model, a fixed function of the text
\* (vectors are one-dimensional here)
Embed(chunk) ==
  (chunk.start \div 100 + chunk.len \div 100
     + (IF chunk.page = << >> THEN 0 ELSE 3)) % 7

\* the embedding of a question
QueryVec(question) == (3 * question - 2) % 7

\* FAISS.from_documents once every text is embedded: a fresh store holding
\* one entry per chunk, in chunk order, under fresh docstore ids
from_documents(docs, vectors, build) ==
  [index |-> vectors,
   index_to_docstore_id |-> [i \in 1..Len(docs) |-> <<build, i>>],
   docstore |-> [id \in {<<build, i>> : i \in 1..Len(docs)} |-> docs[id[2]]]]

\* save_local writes index.faiss (the vectors) and then index.pkl (the
\* docstore and the position -> id table)
FaissFile(store) == <<store.index>>
PklFile(store) ==
  <<[docstore |-> store.docstore, index_to_docstore_id |-> store.index_to_docstore_id]>>

\* variant of load_local: the id table is read back in reverse order
load_local_reversed(d) ==
  [index |-> d.faiss[1],
   index_to_docstore_id |->
     [i \in 1..Len(d.pkl[1].index_to_docstore_id) |->
        d.pkl[1].index_to_docstore_id[Len(d.pkl[1].index_to_docstore_id) + 1 - i]],
   docstore |-> d.pkl[1].docstore]

\* load_local needs both files
IndexOnDisk(d) == d.faiss # << >> /\ d.pkl # << >>

\* FAISS.load_local: the store the two files hold
load_local(d) ==
  [index |-> d.faiss[1],
   index_to_docstore_id |-> d.pkl[1].index_to_docstore_id,
   docstore |-> d.pkl[1].docstore]

\* the entries of a store in index order
Entries(store) ==
  [i \in 1..Len(store.index) |->
     [vector |-> store.index[i],
      doc |-> store.docstore[store.index_to_docstore_id[i]]]]

\* similarity search (squared L2 distance, nearest first, the lower position
\* first among equals), at most k results
Dist(v, q) == (v - q) * (v - q)
Before(store, q, i, j) ==
  \/ Dist(store.index[i], q) < Dist(store.index[j], q)
  \/ Dist(store.index[i], q) = Dist(store.index[j], q) /\ i < j
Rank(store, q, i) ==
  1 + Cardinality({j \in 1..Len(store.index) : Before(store, q, j, i)})
\* variant of similarity_search: the distance is read as a score, the
\* largest first
similarity_search_by_score(store, q, k) ==
  LET n == Len(store.index)
      m == IF k < n THEN k ELSE n
      at(r) == CHOOSE i \in 1..n : Rank(store, q, i) = n + 1 - r
  IN  [r \in 1..m |-> store.docstore[store.index_to_docstore_id[at(r)]]]

similarity_search(store, q, k) ==
  LET n == Len(store.index)
      m == IF k < n THEN k ELSE n
      at(r) == CHOOSE i \in 1..n : Rank(store, q, i) = r
  IN  [r \in 1..m |-> store.docstore[store.index_to_docstore_id[at(r)]]]

\* make_retriever: similarity search with k = TOP_K
Retrieve(store, question) == similarity_search(store, QueryVec(question), TOP_K)

\* ------------------------------------------------------------- answering
\* the label ask_question builds for one context document
SourceStr(doc) ==
  doc.source.name
    \o (IF doc.page # << >> THEN " (page " \o ToString(doc.page[1]) \o ")" ELSE "")

\* variant of AnswerResult: the sources list every indexed document
AnswerResultCitingIndex(store, question, answer) ==
  LET context_docs == Retrieve(store, question)
      indexed == [i \in 1..Len(store.index) |->
                    store.docstore[store.index_to_docstore_id[i]]]
  IN  [question |-> question,
       answer |-> answer,
       sources |-> [i \in 1..Len(indexed) |-> SourceStr(indexed[i])],
       context |-> context_docs]

\* ask_question when the chain returns
AnswerResult(store, question, answer) ==
  LET context_docs == Retrieve(store, question)
  IN  [question |-> question,
       answer |-> answer,
       sources |-> [i \in 1..Len(context_docs) |-> SourceStr(context_docs[i])],
       context |-> context_docs]

\* ask_question when the chain raises e
ErrorResult(question, e) ==
  [question |-> question,
   answer |-> "Error: " \o e,
   sources |-> << >>,
   context |-> << >>]

\* "\n".join(lines)
RECURSIVE Join(_)
Join(lines) ==
  IF lines = << >> THEN ""
  ELSE IF Len(lines) = 1 THEN lines[1]
  ELSE lines[1] \o "\n" \o Join(Tail(lines))

\* --------------------------------------------------------------- database
\* register_contract: INSERT OR REPLACE on the UNIQUE filename; the new row
\* takes the next AUTOINCREMENT id.  db = [rows, seq] of table contracts.
register_contract(db, file, chunk_count) ==
  [rows |-> {r \in db.rows : r.filename # file.name}
              \cup {[id |-> db.seq + 1, filename |-> file.name,
                     total_chunks |-> chunk_count]},
   seq |-> db.seq + 1]

\* main's loop registering every found file
RECURSIVE RegisterAll(_, _, _)
RegisterAll(db, fs, chunk_count) ==
  IF fs = << >> THEN db
  ELSE RegisterAll(register_contract(db, Head(fs), chunk_count), Tail(fs), chunk_count)

\* save_analysis_to_db: one more row of analysis_results
save_analysis_to_db(rows, contract_id, result) ==
  Append(rows, [id |-> Len(rows) + 1,
                contract_id |-> contract_id,
                question |-> result.question,
                answer |-> result.answer,
                sources |-> Join(result.sources)])

\* ------------------------------------------------------------------ state
VARIABLES
  pc,                \* where main() is: "idle", "check", "scan", "build_or_load",
                     \* "save_faiss", "save_pkl", "ask", "done"
  run,               \* number of runs of main() started so far
  env,               \* this run's GROQ_API_KEY presence and REBUILD_INDEX setting
  files,             \* main's files: the paths find_files returned
  chunks,            \* main's chunks
  embedded,          \* vectors computed so far by FAISS.from_documents
  vectorstore,       \* main's vectorstore: << >> until built or loaded
  disk,              \* the files under INDEX_PATH: index.faiss and index.pkl
  contracts,         \* table contracts with its AUTOINCREMENT sequence
  analysis_results,  \* table analysis_results
  qi,                \* questions of the batch asked so far
  results,           \* the dicts ask_question returned in this run
  outcomes,          \* per question asked: "answered" or "failed" (the chain raised)
  exit,              \* how the run ended: "" while running
  ops,               \* the stages this run has executed
  diskAtStart,       \* the files under INDEX_PATH when this run started
  lastBuilt          \* the store of the latest build that finished saving

vars == <<pc, run, env, files, chunks, embedded, vectorstore, disk, contracts,
          analysis_results, qi, results, outcomes, exit, ops, diskAtStart, lastBuilt>>

VARIABLES
  splitDocs,         \* the documents of a call of split_documents on its own
  splitChunks,       \* what that call returned
  splitPc            \* "idle" before the call, "done" after it

splitVars == <<splitDocs, splitChunks, splitPc>>

VARIABLES
  dbTables,            \* the tables of the database file, each with its columns
  compliance_findings, \* the rows of table compliance_findings
  findingCall,         \* the latest call of save_compliance_finding: << >> if none
  findingError         \* what that call raised: "" if it returned

findingVars == <<dbTables, compliance_findings, findingCall, findingError>>

\* the variables main() does not touch
auxVars == <<splitVars, findingVars>>

allVars == <<vars, auxVars>>

\* no call of split_documents on its own is under way
SplitIdle ==
  /\ splitDocs = << >>
  /\ splitChunks = << >>
  /\ splitPc = "idle"

\* no database file yet, no call of save_compliance_finding made
FindingsIdle ==
  /\ dbTables = [t \in {} |-> {}]
  /\ compliance_findings = << >>
  /\ findingCall = << >>
  /\ findingError = ""

\* what the model answers when generation succeeds
Answers == {"The contract lacks a breach notification clause."}
\* what the chain raises when retrieval or generation fails
Errors == {"rate limit exceeded"}

NoIndex == [faiss |-> << >>, pkl |-> << >>]

Init ==
  /\ pc = "idle"
  /\ run = 0
  /\ env = [api_key |-> FALSE, rebuild |-> FALSE]
  /\ files = << >>
  /\ chunks = << >>
  /\ embedded = << >>
  /\ vectorstore = << >>
  /\ disk = NoIndex
  /\ contracts = [rows |-> {}, seq |-> 0]
  /\ analysis_results = << >>
  /\ qi = 0
  /\ results = << >>
  /\ outcomes = << >>
  /\ exit = ""
  /\ ops = {}
  /\ diskAtStart = NoIndex
  /\ lastBuilt = << >>

\* ---------------------------------------------------------------- actions
\* python groq_only_rag.py: a new process, with its environment and settings
Start(api_key, rebuild) ==
  /\ pc \in {"idle", "done"}
  /\ run < MaxRuns
  /\ pc' = "check"
  /\ run' = run + 1
  /\ env' = [api_key |-> api_key, rebuild |-> rebuild]
  /\ files' = << >>
  /\ chunks' = << >>
  /\ embedded' = << >>
  /\ vectorstore' = << >>
  /\ qi' = 0
  /\ results' = << >>
  /\ outcomes' = << >>
  /\ exit' = ""
  /\ ops' = {}
  /\ diskAtStart' = disk
  /\ UNCHANGED <<disk, contracts, analysis_results, lastBuilt>>
  /\ UNCHANGED auxVars

\* check_api_keys() is False: main returns
CheckApiKeysMissing ==
  /\ pc = "check"
  /\ ~env.api_key
  /\ pc' = "done"
  /\ exit' = "no_api_key"
  /\ UNCHANGED <<run, env, files, chunks, embedded, vectorstore, disk, contracts,
                 analysis_results, qi, results, outcomes, ops, diskAtStart, lastBuilt>>
  /\ UNCHANGED auxVars

\* check_api_keys() is True: setup_database(), then the REBUILD_INDEX branch
SetupDatabase ==
  /\ pc = "check"
  /\ env.api_key
  /\ pc' = IF env.rebuild THEN "scan" ELSE "build_or_load"
  /\ ops' = ops \cup {"setup_database"}
  /\ UNCHANGED <<run, env, files, chunks, embedded, vectorstore, disk, contracts,
                 analysis_results, qi, results, outcomes, exit, diskAtStart, lastBuilt>>
  /\ UNCHANGED auxVars

\* variant of ScanNoFiles: with no documents left, the saved index is removed
ScanNoFilesClearingIndex(listing) ==
  /\ pc = "scan"
  /\ find_files(listing) = << >>
  /\ pc' = "done"
  /\ exit' = "no_files"
  /\ disk' = NoIndex
  /\ ops' = ops \cup {"find_files"}
  /\ UNCHANGED <<run, env, files, chunks, embedded, vectorstore, contracts,
                 analysis_results, qi, results, outcomes, diskAtStart, lastBuilt>>
  /\ UNCHANGED auxVars

\* find_files returns nothing: "No files found!", main returns
ScanNoFiles(listing) ==
  /\ pc = "scan"
  /\ find_files(listing) = << >>
  /\ pc' = "done"
  /\ exit' = "no_files"
  /\ ops' = ops \cup {"find_files"}
  /\ UNCHANGED <<run, env, files, chunks, embedded, vectorstore, disk, contracts,
                 analysis_results, qi, results, outcomes, diskAtStart, lastBuilt>>
  /\ UNCHANGED auxVars

\* find_files, load_documents, split_documents and the register_contract loop
LoadAndSplit(listing, unreadable) ==
  /\ pc = "scan"
  /\ find_files(listing) # << >>
  /\ LET found == find_files(listing)
         docs == load_documents(found, unreadable)
         split == split_documents(docs)
     IN  /\ files' = found
         /\ chunks' = split
         /\ contracts' = RegisterAll(contracts, found, Len(split))
  /\ pc' = "build_or_load"
  /\ ops' = ops \cup {"find_files", "load_documents", "split_documents",
                      "register_contract"}
  /\ UNCHANGED <<run, env, embedded, vectorstore, disk, analysis_results, qi,
                 results, outcomes, exit, diskAtStart, lastBuilt>>
  /\ UNCHANGED auxVars

\* variant of Rebuilding: also build when no index is on disk
RebuildingWhenMissing == env.rebuild \/ ~IndexOnDisk(disk)

\* build_or_load_faiss takes the build branch
Rebuilding == env.rebuild

\* variant of EmbedChunk: each vector is written through to index.faiss
EmbedChunkWritingThrough ==
  /\ pc = "build_or_load"
  /\ Rebuilding
  /\ Len(embedded) < Len(chunks)
  /\ embedded' = Append(embedded, Embed(chunks[Len(embedded) + 1]))
  /\ disk' = [disk EXCEPT !.faiss = <<embedded'>>]
  /\ ops' = ops \cup {"embed"}
  /\ UNCHANGED <<pc, run, env, files, chunks, vectorstore, contracts,
                 analysis_results, qi, results, outcomes, exit, diskAtStart, lastBuilt>>
  /\ UNCHANGED auxVars

\* FAISS.from_documents embeds the next chunk
EmbedChunk ==
  /\ pc = "build_or_load"
  /\ Rebuilding
  /\ Len(embedded) < Len(chunks)
  /\ embedded' = Append(embedded, Embed(chunks[Len(embedded) + 1]))
  /\ ops' = ops \cup {"embed"}
  /\ UNCHANGED <<pc, run, env, files, chunks, vectorstore, disk, contracts,
                 analysis_results, qi, results, outcomes, exit, diskAtStart, lastBuilt>>
  /\ UNCHANGED auxVars

\* the embedding call raises: the exception leaves main
EmbedFails ==
  /\ pc = "build_or_load"
  /\ Rebuilding
  /\ Len(embedded) < Len(chunks)
  /\ pc' = "done"
  /\ exit' = "embedding_failed"
  /\ ops' = ops \cup {"embed"}
  /\ UNCHANGED <<run, env, files, chunks, embedded, vectorstore, disk, contracts,
                 analysis_results, qi, results, outcomes, diskAtStart, lastBuilt>>
  /\ UNCHANGED auxVars

\* FAISS.from_documents over no chunks raises (no first vector to size the
\* index with): the exception leaves main
BuildEmpty ==
  /\ pc = "build_or_load"
  /\ Rebuilding
  /\ chunks = << >>
  /\ pc' = "done"
  /\ exit' = "empty_build"
  /\ ops' = ops \cup {"embed"}
  /\ UNCHANGED <<run, env, files, chunks, embedded, vectorstore, disk, contracts,
                 analysis_results, qi, results, outcomes, diskAtStart, lastBuilt>>
  /\ UNCHANGED auxVars

\* variant of BuildIndex: the new entries are added to the index on disk
BuildIndexAppending ==
  /\ pc = "build_or_load"
  /\ Rebuilding
  /\ chunks # << >>
  /\ Len(embedded) = Len(chunks)
  /\ LET new == from_documents(chunks, embedded, run)
         old == load_local(disk)
     IN  vectorstore' =
           IF IndexOnDisk(disk)
           THEN <<[index |-> old.index \o new.index,
                   index_to_docstore_id |->
                     old.index_to_docstore_id \o new.index_to_docstore_id,
                   docstore |->
                     [id \in DOMAIN old.docstore \cup DOMAIN new.docstore |->
                        IF id \in DOMAIN new.docstore THEN new.docstore[id]
                        ELSE old.docstore[id]]]>>
           ELSE <<new>>
  /\ pc' = "save_faiss"
  /\ UNCHANGED <<run, env, files, chunks, embedded, disk, contracts,
                 analysis_results, qi, results, outcomes, exit, ops, diskAtStart,
                 lastBuilt>>
  /\ UNCHANGED auxVars

\* FAISS.from_documents returns the new store
BuildIndex ==
  /\ pc = "build_or_load"
  /\ Rebuilding
  /\ chunks # << >>
  /\ Len(embedded) = Len(chunks)
  /\ vectorstore' = <<from_documents(chunks, embedded, run)>>
  /\ pc' = "save_faiss"
  /\ UNCHANGED <<run, env, files, chunks, embedded, disk, contracts,
                 analysis_results, qi, results, outcomes, exit, ops, diskAtStart,
                 lastBuilt>>
  /\ UNCHANGED auxVars

\* save_local writes index.faiss
SaveFaiss ==
  /\ pc = "save_faiss"
  /\ disk' = [disk EXCEPT !.faiss = FaissFile(vectorstore[1])]
  /\ pc' = "save_pkl"
  /\ ops' = ops \cup {"write_index"}
  /\ UNCHANGED <<run, env, files, chunks, embedded, vectorstore, contracts,
                 analysis_results, qi, results, outcomes, exit, diskAtStart, lastBuilt>>
  /\ UNCHANGED auxVars

\* save_local writes index.pkl; build_or_load_faiss returns and main makes
\* the retriever and the chain
SavePkl ==
  /\ pc = "save_pkl"
  /\ disk' = [disk EXCEPT !.pkl = PklFile(vectorstore[1])]
  /\ lastBuilt' = vectorstore
  /\ pc' = "ask"
  /\ UNCHANGED <<run, env, files, chunks, embedded, vectorstore, contracts,
                 analysis_results, qi, results, outcomes, exit, ops, diskAtStart>>
  /\ UNCHANGED auxVars

\* build_or_load_faiss takes the load branch and FAISS.load_local returns
LoadIndex ==
  /\ pc = "build_or_load"
  /\ ~Rebuilding
  /\ IndexOnDisk(disk)
  /\ vectorstore' = <<load_local(disk)>>
  /\ pc' = "ask"
  /\ ops' = ops \cup {"read_index"}
  /\ UNCHANGED <<run, env, files, chunks, embedded, disk, contracts,
                 analysis_results, qi, results, outcomes, exit, diskAtStart, lastBuilt>>
  /\ UNCHANGED auxVars

\* variant of LoadIndexFails: a missing index is taken for an empty one
LoadIndexFailsOpen ==
  /\ pc = "build_or_load"
  /\ ~Rebuilding
  /\ ~IndexOnDisk(disk)
  /\ vectorstore' = <<from_documents(<< >>, << >>, run)>>
  /\ pc' = "ask"
  /\ ops' = ops \cup {"read_index"}
  /\ UNCHANGED <<run, env, files, chunks, embedded, disk, contracts,
                 analysis_results, qi, results, outcomes, exit, diskAtStart, lastBuilt>>
  /\ UNCHANGED auxVars

\* FAISS.load_local raises (no index files): the exception leaves main
LoadIndexFails ==
  /\ pc = "build_or_load"
  /\ ~Rebuilding
  /\ ~IndexOnDisk(disk)
  /\ pc' = "done"
  /\ exit' = "load_failed"
  /\ ops' = ops \cup {"read_index"}
  /\ UNCHANGED <<run, env, files, chunks, embedded, vectorstore, disk, contracts,
                 analysis_results, qi, results, outcomes, diskAtStart, lastBuilt>>
  /\ UNCHANGED auxVars

\* variant of AskAnswered: the answered question is added to the index
AskAnsweredIndexing(answer) ==
  /\ pc = "ask"
  /\ qi < NumQuestions
  /\ LET result == AnswerResult(vectorstore[1], qi + 1, answer)
         store == vectorstore[1]
         id == <<0, qi + 1>>
         doc == [source |-> [parent |-> "", name |-> "question"], page |-> << >>,
                 start |-> 0, len |-> 0]
     IN  /\ results' = Append(results, result)
         /\ analysis_results' = save_analysis_to_db(analysis_results, 1, result)
         /\ vectorstore' =
              <<[index |-> Append(store.index, QueryVec(qi + 1)),
                 index_to_docstore_id |-> Append(store.index_to_docstore_id, id),
                 docstore |-> [x \in DOMAIN store.docstore \cup {id} |->
                                 IF x = id THEN doc ELSE store.docstore[x]]]>>
  /\ outcomes' = Append(outcomes, "answered")
  /\ qi' = qi + 1
  /\ UNCHANGED <<pc, run, env, files, chunks, embedded, disk,
                 contracts, exit, ops, diskAtStart, lastBuilt>>
  /\ UNCHANGED auxVars

\* one iteration of the query loop, the chain returning an answer
AskAnswered(answer) ==
  /\ pc = "ask"
  /\ qi < NumQuestions
  /\ LET result == AnswerResult(vectorstore[1], qi + 1, answer)
     IN  /\ results' = Append(results, result)
         /\ analysis_results' = save_analysis_to_db(analysis_results, 1, result)
  /\ outcomes' = Append(outcomes, "answered")
  /\ qi' = qi + 1
  /\ UNCHANGED <<pc, run, env, files, chunks, embedded, vectorstore, disk,
                 contracts, exit, ops, diskAtStart, lastBuilt>>
  /\ UNCHANGED auxVars

\* variant of AskFails: the exception is not caught and leaves main
AskFailsRaising(e) ==
  /\ pc = "ask"
  /\ qi < NumQuestions
  /\ outcomes' = Append(outcomes, "failed")
  /\ pc' = "done"
  /\ exit' = "fatal: " \o e
  /\ UNCHANGED <<run, env, files, chunks, embedded, vectorstore, disk, contracts,
                 analysis_results, qi, results, ops, diskAtStart, lastBuilt>>
  /\ UNCHANGED auxVars

\* one iteration of the query loop, the chain raising e
AskFails(e) ==
  /\ pc = "ask"
  /\ qi < NumQuestions
  /\ LET result == ErrorResult(qi + 1, e)
     IN  /\ results' = Append(results, result)
         /\ analysis_results' = save_analysis_to_db(analysis_results, 1, result)
  /\ outcomes' = Append(outcomes, "failed")
  /\ qi' = qi + 1
  /\ UNCHANGED <<pc, run, env, files, chunks, embedded, vectorstore, disk,
                 contracts, exit, ops, diskAtStart, lastBuilt>>
  /\ UNCHANGED auxVars

\* the loop is over: generate_final_report() and main returns
Report ==
  /\ pc = "ask"
  /\ qi = NumQuestions
  /\ pc' = "done"
  /\ exit' = "complete"
  /\ UNCHANGED <<run, env, files, chunks, embedded, vectorstore, disk, contracts,
                 analysis_results, qi, results, outcomes, ops, diskAtStart, lastBuilt>>
  /\ UNCHANGED auxVars

Next ==
  \/ \E k \in BOOLEAN, r \in BOOLEAN : Start(k, r)
  \/ CheckApiKeysMissing
  \/ SetupDatabase
  \/ \E l \in SUBSET AllFiles : ScanNoFiles(l)
  \/ \E l \in SUBSET AllFiles : \E u \in SUBSET l : LoadAndSplit(l, u)
  \/ EmbedChunk
  \/ EmbedFails
  \/ BuildEmpty
  \/ BuildIndex
  \/ SaveFaiss
  \/ SavePkl
  \/ LoadIndex
  \/ LoadIndexFails
  \/ \E a \in Answers : AskAnswered(a)
  \/ \E e \in Errors : AskFails(e)
  \/ Report

\* the state before anything has run
InitAll == Init /\ SplitIdle /\ FindingsIdle

Spec == InitAll /\ [][Next]_allVars

\* ------------------------------------------- split_documents on its own
\* the piece lengths and the texts the call is given
PieceLengths == {100, 400, 800, 900}
Texts(n) == UNION {[1..k -> PieceLengths] : k \in 0..n}

\* a text file's document and a PDF page's document with the given text
TextDoc(pieces) ==
  [source |-> [parent |-> FileA.parent, name |-> FileA.name], page |-> << >>,
   pieces |-> pieces]
PageDoc(pieces) ==
  [source |-> [parent |-> FileB.parent, name |-> FileB.name], page |-> <<0>>,
   pieces |-> pieces]

\* chunks = split_documents(docs)
SplitCall(docs) ==
  /\ splitPc = "idle"
  /\ splitDocs' = docs
  /\ splitChunks' = create_documents(docs)
  /\ splitPc' = "done"
  /\ UNCHANGED <<vars, findingVars>>

\* the next call
SplitAgain ==
  /\ splitPc = "done"
  /\ splitDocs' = << >>
  /\ splitChunks' = << >>
  /\ splitPc' = "idle"
  /\ UNCHANGED <<vars, findingVars>>

NextSplit ==
  \/ \E t \in Texts(MaxPieces) : SplitCall(<<TextDoc(t)>>)
  \/ \E t \in Texts(MaxPieces) : \E u \in Texts(1) : SplitCall(<<TextDoc(t), PageDoc(u)>>)
  \/ SplitAgain

SpecSplit == InitAll /\ [][NextSplit]_allVars

\* ------------------------------- save_compliance_finding on its own
\* the columns setup_database gives each table
Schema ==
  [t \in {"contracts", "analysis_results", "compliance_findings", "detected_clauses"} |->
     IF t = "contracts"
     THEN {"id", "filename", "file_path", "upload_date", "total_chunks", "processed"}
     ELSE IF t = "analysis_results"
     THEN {"id", "contract_id", "question", "answer", "sources", "timestamp"}
     ELSE IF t = "compliance_findings"
     THEN {"id", "contract_id", "regulation", "compliance_status", "missing_clauses",
           "risk_level", "recommendations", "analysis_date"}
     ELSE {"id", "contract_id", "clause_type", "clause_text", "regulation_category",
           "detection_date"}]

\* the columns save_compliance_finding's INSERT names, with the value each gets
FindingInsert(a) ==
  [c \in {"contract_id", "regulation", "status", "missing_clauses", "risk_level",
          "recommendations", "analysis_date"} |->
     IF c = "contract_id" THEN a.contract_id
     ELSE IF c = "regulation" THEN a.regulation
     ELSE IF c = "status" THEN a.status
     ELSE IF c = "missing_clauses" THEN a.missing
     ELSE IF c = "risk_level" THEN a.risk
     ELSE IF c = "recommendations" THEN a.recommendations
     ELSE "now"]

\* the arguments of a call
FindingArgs ==
  [contract_id : {1, 2}, regulation : {"GDPR", "HIPAA"},
   status : {"compliant", "non_compliant"}, missing : {"", "breach notification"},
   risk : {"low", "high"}, recommendations : {"", "add a breach notification clause"}]

\* setup_database: CREATE TABLE IF NOT EXISTS for every table
SetupDatabaseTables ==
  /\ dbTables' = [t \in DOMAIN Schema |->
                    IF t \in DOMAIN dbTables THEN dbTables[t] ELSE Schema[t]]
  /\ dbTables' # dbTables
  /\ UNCHANGED <<compliance_findings, findingCall, findingError>>
  /\ UNCHANGED <<vars, splitVars>>

\* INSERT INTO table (columns) VALUES (...): the row added, or the
\* OperationalError sqlite3 raises
Insert(tables, rows, table, values) ==
  IF table \notin DOMAIN tables
  THEN [rows |-> rows, error |-> "no such table: " \o table]
  ELSE IF \E c \in DOMAIN values : c \notin tables[table]
  THEN [rows |-> rows,
        error |-> "table " \o table \o " has no column named "
                    \o (CHOOSE c \in DOMAIN values : c \notin tables[table])]
  ELSE [rows |-> Append(rows,
                        [c \in tables[table] |->
                           IF c = "id" THEN Len(rows) + 1
                           ELSE IF c \in DOMAIN values THEN values[c]
                           ELSE "NULL"]),
        error |-> ""]

\* save_compliance_finding(contract_id, regulation, status, missing, risk,
\* recommendations)
SaveComplianceFinding(a) ==
  /\ Len(compliance_findings) < MaxFindings
  /\ LET done == Insert(dbTables, compliance_findings, "compliance_findings",
                        FindingInsert(a))
     IN  /\ compliance_findings' = done.rows
         /\ findingError' = done.error
  /\ findingCall' = <<[args |-> a, tables |-> DOMAIN dbTables,
                       rows_before |-> Len(compliance_findings)]>>
  /\ UNCHANGED dbTables
  /\ UNCHANGED <<vars, splitVars>>

NextFindings ==
  \/ SetupDatabaseTables
  \/ \E a \in FindingArgs : SaveComplianceFinding(a)

SpecFindings == InitAll /\ [][NextFindings]_allVars

\* ================================================================ claims
\* the rows of analysis_results this run has written, in question order
RunRow(i) == analysis_results[Len(analysis_results) - Len(results) + i]

\* the label of a passage: its file name, plus its page when it has one
PassageLabel(doc) ==
  IF doc.page = << >> THEN doc.source.name
  ELSE doc.source.name \o " (page " \o ToString(doc.page[1]) \o ")"

\* a list without its repeated elements (the first occurrence stays)
RECURSIVE Distinct(_)
Distinct(seq) ==
  IF seq = << >> THEN << >>
  ELSE LET front == Distinct(SubSeq(seq, 1, Len(seq) - 1))
           last == seq[Len(seq)]
       IN  IF \E j \in 1..Len(front) : front[j] = last THEN front
           ELSE Append(front, last)

\* the documents of a store in index order
IndexedDocs(store) == [i \in 1..Len(store.index) |-> Entries(store)[i].doc]

\* the vectors FAISS.from_documents computes for a list of chunks
VectorsOf(docs) == [i \in 1..Len(docs) |-> Embed(docs[i])]

\* C1: a failure raised while answering one question does not abort the
\* batch: every question asked so far has its own result record and stored
\* row (an error record for a failed question, the model's answer for an
\* answered one), the run is still in the query loop or has completed it, and
\* a completed run has asked every question of the batch.
C1_FailureDoesNotAbortBatch ==
  /\ Len(outcomes) = qi
  /\ Len(results) = qi
  /\ Len(analysis_results) >= qi
  /\ \A i \in 1..Len(outcomes) :
       /\ i <= Len(results)
       /\ results[i].question = i
       /\ RunRow(i).question = i
       /\ outcomes[i] = "answered" => results[i].answer \in Answers
       /\ outcomes[i] = "failed" =>
            /\ results[i].answer \in {"Error: " \o e : e \in Errors}
            /\ \/ pc = "ask"
               \/ pc = "done" /\ exit = "complete"
  /\ exit = "complete" => qi = NumQuestions

\* C1 witness: a completed batch whose first question failed and whose second
\* was answered
C1_Witness ==
  /\ exit = "complete"
  /\ outcomes[1] = "failed"
  /\ outcomes[2] = "answered"
  /\ results[2].answer \in Answers

\* C2: when answering a question fails, the result returned and the row
\* stored for it carry no answer text (the answer is empty).
C2_FailureCarriesNoAnswer ==
  \A i \in 1..Len(results) :
    outcomes[i] = "failed" =>
      /\ results[i].answer = ""
      /\ RunRow(i).answer = ""

\* C3: the sources ask_question reports are labels of passages retrieved for
\* that question from the index in use, and a failed question reports none.
C3_SourcesFromRetrievedPassages ==
  \A i \in 1..Len(results) :
    /\ outcomes[i] = "failed" => results[i].sources = << >>
    /\ outcomes[i] = "answered" =>
         LET retrieved == Retrieve(vectorstore[1], results[i].question)
         IN  \A j \in 1..Len(results[i].sources) :
               \E r \in 1..Len(retrieved) :
                 results[i].sources[j] = PassageLabel(retrieved[r])

\* C3 witness: an answered question over an index holding a passage that was
\* not retrieved for it and whose label is not among the retrieved ones
C3_Witness ==
  /\ results # << >>
  /\ outcomes[1] = "answered"
  /\ results[1].sources # << >>
  /\ \E k \in 1..Len(vectorstore[1].index) :
       LET doc == vectorstore[1].docstore[vectorstore[1].index_to_docstore_id[k]]
       IN  \A j \in 1..Len(results[1].sources) :
             results[1].sources[j] # PassageLabel(doc)

\* C4: no source label appears more than once in a returned result, and the
\* sources text stored for it lists each of its labels once.
C4_SourcesDeduplicated ==
  \A i \in 1..Len(results) :
    /\ \A j, k \in 1..Len(results[i].sources) :
         j # k => results[i].sources[j] # results[i].sources[k]
    /\ RunRow(i).sources = Join(Distinct(results[i].sources))

\* C5: an index that is saved or handed to the query flow by a rebuild holds
\* every chunk of every file of the discovered document set.
C5_NoPartialIndexPublished ==
  (env.rebuild /\ vectorstore # << >> /\ pc \in {"save_pkl", "ask", "done"}) =>
    \A k \in 1..Len(files) :
      LET expected == split_documents(LoadFile(files[k]))
          indexed == {vectorstore[1].docstore[id] : id \in DOMAIN vectorstore[1].docstore}
      IN  \A c \in 1..Len(expected) : expected[c] \in indexed

\* C6: a rebuild that fails during embedding leaves the index files as they
\* were when the run started, and the index files are written only by a build
\* that embedded every chunk.
C6_FailedEmbeddingLeavesDiskUntouched ==
  /\ exit = "embedding_failed" => disk = diskAtStart
  /\ (pc = "build_or_load" /\ env.rebuild) => disk = diskAtStart
  /\ "write_index" \in ops =>
       /\ chunks # << >>
       /\ embedded = VectorsOf(chunks)

\* C6 witness: a rebuild over several chunks failed after embedding some of
\* them, with an index saved by an earlier run on disk
C6_Witness ==
  /\ exit = "embedding_failed"
  /\ IndexOnDisk(diskAtStart)
  /\ Len(embedded) > 0
  /\ Len(embedded) < Len(chunks)
  /\ disk = diskAtStart

\* C7: a question is asked only over an index built in this run or loaded
\* from index files present when the run started; a run whose build failed,
\* or that was to load and found no index files, ends with an error and
\* without having asked anything.
C7_NoQuestionWithoutIndex ==
  /\ (pc = "ask" \/ qi > 0 \/ results # << >>) =>
       /\ vectorstore # << >>
       /\ \/ env.rebuild /\ "embed" \in ops /\ "write_index" \in ops
             /\ IndexedDocs(vectorstore[1]) = chunks
          \/ ~env.rebuild /\ "read_index" \in ops /\ IndexOnDisk(diskAtStart)
             /\ vectorstore[1] = load_local(diskAtStart)
  /\ exit \in {"embedding_failed", "empty_build", "load_failed"} =>
       /\ qi = 0
       /\ results = << >>
       /\ vectorstore = << >>
  /\ (pc = "done" /\ run > 0 /\ env.api_key /\ ~env.rebuild /\ ~IndexOnDisk(diskAtStart)) =>
       exit = "load_failed"

\* C7 witness: a run that was to load the index, found none, and ended with
\* the load error without asking a question
C7_Witness ==
  /\ pc = "done"
  /\ exit = "load_failed"
  /\ ~env.rebuild
  /\ ~IndexOnDisk(disk)
  /\ results = << >>

\* C8: after a rebuild has saved, the index in memory and the index on disk
\* hold exactly the chunks of this build, one entry per chunk, in chunk order,
\* whatever the index files held before.
C8_RebuildReplacesIndex ==
  (env.rebuild /\ vectorstore # << >> /\ pc \in {"ask", "done"}) =>
    /\ IndexOnDisk(disk)
    /\ IndexedDocs(vectorstore[1]) = chunks
    /\ IndexedDocs(load_local(disk)) = chunks
    /\ load_local(disk).index = VectorsOf(chunks)
    /\ Cardinality(DOMAIN load_local(disk).docstore) = Len(chunks)
    /\ \A i, j \in 1..Len(load_local(disk).index) :
         i # j => load_local(disk).index_to_docstore_id[i]
                    # load_local(disk).index_to_docstore_id[j]

\* C8 witness: a second rebuild has saved over an index built from a
\* different document set
C8_Witness ==
  /\ env.rebuild
  /\ pc = "ask"
  /\ IndexOnDisk(diskAtStart)
  /\ IndexedDocs(load_local(diskAtStart)) # chunks
  /\ \E i \in 1..Len(load_local(diskAtStart).index) :
       \A j \in 1..Len(chunks) : IndexedDocs(load_local(diskAtStart))[i] # chunks[j]

\* C9: the rebuild flag alone decides.  With rebuild on, the index files are
\* never read and the index handed on is the one built from the chunks and
\* saved; with rebuild off nothing is scanned, loaded, split, embedded or
\* written, the index files stay as they were, and the index handed on is
\* the one they held (a run finding none ends with the load error).
C9_RebuildFlagDecides ==
  /\ env.rebuild =>
       /\ "read_index" \notin ops
       /\ exit # "load_failed"
       /\ (vectorstore # << >> /\ pc \in {"ask", "done"}) =>
            /\ vectorstore[1] = from_documents(chunks, VectorsOf(chunks), run)
            /\ disk.faiss = FaissFile(vectorstore[1])
            /\ disk.pkl = PklFile(vectorstore[1])
  /\ ~env.rebuild =>
       /\ ops \cap {"find_files", "load_documents", "split_documents", "embed",
                    "write_index", "register_contract"} = {}
       /\ files = << >>
       /\ chunks = << >>
       /\ embedded = << >>
       /\ disk = diskAtStart
       /\ exit \notin {"embedding_failed", "empty_build", "no_files"}
       /\ vectorstore # << >> => vectorstore[1] = load_local(diskAtStart)

\* C9 witness: with rebuild off and no index files, the run has ended with
\* the load error, nothing scanned or built
C9_Witness ==
  /\ ~env.rebuild
  /\ env.api_key
  /\ exit = "load_failed"
  /\ disk = NoIndex
  /\ ops = {"setup_database", "read_index"}

ChunksOf(k) ==
  SelectSeq(splitChunks,
            LAMBDA c : c.source = splitDocs[k].source /\ c.page = splitDocs[k].page)

PositionOf(store, doc) ==
  CHOOSE i \in 1..Len(store.index) : store.docstore[store.index_to_docstore_id[i]] = doc

SavedAs(store) == [faiss |-> FaissFile(store), pkl |-> PklFile(store)]

\* C13: the index files are written only once every chunk is embedded, and
\* at every moment they hold either the index they held when the run started
\* or the complete new index.
C13_IndexReplacedAtomically ==
  /\ pc \in {"save_faiss", "save_pkl"} => embedded = VectorsOf(chunks)
  /\ \/ disk = diskAtStart
     \/ vectorstore # << >> /\ disk = SavedAs(vectorstore[1])

\* C14: while questions are asked and after the batch, the index in memory
\* and the index files are those the query loop started with, and retrieval
\* for every question answered so far still returns what it returned then.
C14_AskingLeavesIndexUnchanged ==
  (pc = "ask" \/ exit = "complete") =>
    /\ env.rebuild =>
         /\ vectorstore = lastBuilt
         /\ disk = SavedAs(lastBuilt[1])
    /\ ~env.rebuild =>
         /\ vectorstore[1] = load_local(diskAtStart)
         /\ disk = diskAtStart
    /\ \A i \in 1..Len(results) :
         outcomes[i] = "answered" =>
           results[i].context = Retrieve(vectorstore[1], results[i].question)

\* C14 witness: a batch with a failed and an answered question has completed
\* over an index of more than TOP_K entries
C14_Witness ==
  /\ exit = "complete"
  /\ \E i, j \in 1..Len(outcomes) : outcomes[i] = "failed" /\ outcomes[j] = "answered"
  /\ Len(vectorstore[1].index) > TOP_K
  /\ disk = SavedAs(vectorstore[1])

\* C15: a call of save_compliance_finding made once setup_database has
\* created the tables returns without error and has added exactly one row to
\* compliance_findings, holding the values it was given.
C15_FindingIsStored ==
  (findingCall # << >> /\ "compliance_findings" \in findingCall[1].tables) =>
    /\ findingError = ""
    /\ Len(compliance_findings) = findingCall[1].rows_before + 1
    /\ LET row == compliance_findings[Len(compliance_findings)]
           a == findingCall[1].args
       IN  /\ row.contract_id = a.contract_id
           /\ row.regulation = a.regulation
           /\ row.compliance_status = a.status
           /\ row.missing_clauses = a.missing
           /\ row.risk_level = a.risk
           /\ row.recommendations = a.recommendations

\* C16: every row of analysis_results has the id of a row of contracts as its
\* contract_id.
C16_ResultsReferenceContracts ==
  \A i \in 1..Len(analysis_results) :
    \E c \in contracts.rows : c.id = analysis_results[i].contract_id

\* C17: a run that ends for want of GROQ_API_KEY has executed no stage at all
\* (no database setup, no scan, no build or load, no question); a rebuild run
\* that ends for want of document files has only set up the database and
\* scanned: it has registered no contract, embedded nothing, built, loaded or
\* written no index, and asked no question; the index files are as they were.
C17_EarlyExitsTouchNothing ==
  /\ (pc = "done" /\ run > 0 /\ ~env.api_key) => exit = "no_api_key"
  /\ exit = "no_api_key" =>
       /\ ops = {}
       /\ disk = diskAtStart
       /\ vectorstore = << >>
       /\ files = << >> /\ chunks = << >> /\ embedded = << >>
       /\ qi = 0 /\ results = << >>
  /\ exit = "no_files" =>
       /\ env.rebuild
       /\ ops = {"setup_database", "find_files"}
       /\ disk = diskAtStart
       /\ vectorstore = << >>
       /\ files = << >> /\ chunks = << >> /\ embedded = << >>
       /\ qi = 0 /\ results = << >>

\* C17 witness: a rebuild run found no document files and returned, with a
\* saved index on disk and contracts registered by an earlier run
C17_Witness ==
  /\ exit = "no_files"
  /\ env.rebuild
  /\ IndexOnDisk(disk)
  /\ contracts.rows # {}

====
